---------------------------- MODULE Spec2Model ----------------------------
(***************************************************************************)
(* The three result-plotting scripts of the repository                     *)
(*   new_analyze_results.py, OLD PLOT/analyze_results.py and plot.py       *)
(* as one state machine over a small file system: a results directory of   *)
(* text files, the two output directories, and one run of one script at a  *)
(* time, stepped file by file and chart by chart.                          *)
(*                                                                         *)
(* File names and file contents are sequences of one-character strings, so *)
(* that the regular expressions and the str methods of the scripts are     *)
(* computed on the text and not assumed.                                   *)
(***************************************************************************)
EXTENDS Integers, Sequences, FiniteSets, TLC

(***************************************************************************)
(* Bounds of the model.                                                    *)
(***************************************************************************)
\* The most files the results directory holds at one time.
MaxFiles == 2

(***************************************************************************)
(* Python's str and int, on sequences of characters.                       *)
(***************************************************************************)
Digits == {"0", "1", "2", "3", "4", "5", "6", "7", "8", "9"}

DigitVal(c) ==
    CASE c = "0" -> 0 [] c = "1" -> 1 [] c = "2" -> 2 [] c = "3" -> 3
      [] c = "4" -> 4 [] c = "5" -> 5 [] c = "6" -> 6 [] c = "7" -> 7
      [] c = "8" -> 8 [] c = "9" -> 9

\* str.isspace of one character (the characters the files of the model use)
Whitespace == {" ", "\n", "\t", "\r"}

\* str.upper of one character
UpperChar(c) ==
    CASE c = "a" -> "A" [] c = "b" -> "B" [] c = "c" -> "C" [] c = "d" -> "D"
      [] c = "e" -> "E" [] c = "f" -> "F" [] c = "g" -> "G" [] c = "h" -> "H"
      [] c = "i" -> "I" [] c = "j" -> "J" [] c = "k" -> "K" [] c = "l" -> "L"
      [] c = "m" -> "M" [] c = "n" -> "N" [] c = "o" -> "O" [] c = "p" -> "P"
      [] c = "q" -> "Q" [] c = "r" -> "R" [] c = "s" -> "S" [] c = "t" -> "T"
      [] c = "u" -> "U" [] c = "v" -> "V" [] c = "w" -> "W" [] c = "x" -> "X"
      [] c = "y" -> "Y" [] c = "z" -> "Z" [] OTHER -> c

\* s.upper()
Upper(s) == [i \in 1..Len(s) |-> UpperChar(s[i])]

\* s.startswith(p)
StartsWith(s, p) == Len(s) >= Len(p) /\ SubSeq(s, 1, Len(p)) = p

\* s.endswith(p)
EndsWith(s, p) == Len(s) >= Len(p) /\ SubSeq(s, Len(s) - Len(p) + 1, Len(s)) = p

\* whether p occurs in s at position i
OccursAt(s, p, i) == i >= 1 /\ i + Len(p) - 1 <= Len(s) /\ SubSeq(s, i, i + Len(p) - 1) = p

\* p in s
Contains(s, p) == \E i \in 1..(Len(s) + 1) : OccursAt(s, p, i)

\* the text after the first n characters of s
Drop(s, n) == SubSeq(s, n + 1, Len(s))

\* the k-th smallest member of a set of integers
Nth(P, k) == CHOOSE p \in P : Cardinality({q \in P : q < p}) = k - 1

\* s.split(c) for a one-character separator c
Split(s, c) ==
    LET seps == {i \in 1..Len(s) : s[i] = c}
        n == Cardinality(seps)
        cut(k) == IF k = 0 THEN 0 ELSE IF k = n + 1 THEN Len(s) + 1 ELSE Nth(seps, k)
    IN  [k \in 1..(n + 1) |-> SubSeq(s, cut(k - 1) + 1, cut(k) - 1)]

\* s.strip()
Strip(s) ==
    LET black == {i \in 1..Len(s) : s[i] \notin Whitespace}
    IN  IF black = {}
        THEN <<>>
        ELSE SubSeq(s, CHOOSE i \in black : \A j \in black : i <= j,
                       CHOOSE i \in black : \A j \in black : i >= j)

\* s.split() with no separator: the maximal runs of non-whitespace characters
SplitWs(s) ==
    LET black == {i \in 1..Len(s) : s[i] \notin Whitespace}
        starts == {i \in black : i - 1 \notin black}
        ends == {i \in black : i + 1 \notin black}
    IN  [k \in 1..Cardinality(starts) |-> SubSeq(s, Nth(starts, k), Nth(ends, k))]

\* s.replace(p, ''), for a text p that cannot overlap itself ("K", "M",
\* "ms"): every character of an occurrence of p is removed
Remove(s, p) ==
    LET kept == {i \in 1..Len(s) :
                    ~\E j \in 1..i : OccursAt(s, p, j) /\ i < j + Len(p)}
    IN  [k \in 1..Cardinality(kept) |-> s[Nth(kept, k)]]

\* the value of a string of decimal digits
RECURSIVE DecimalValue(_)
DecimalValue(s) ==
    IF s = <<>> THEN 0 ELSE DecimalValue(SubSeq(s, 1, Len(s) - 1)) * 10 + DigitVal(s[Len(s)])

\* a non-empty string of decimal digits: what \d+ matches
IsDigits(s) == s # <<>> /\ \A i \in 1..Len(s) : s[i] \in Digits

\* int(s): surrounding whitespace is ignored; anything but digits raises
\* ValueError (raised |-> TRUE). The files of the model hold no sign and no
\* digit-group underscore.
PyInt(s) ==
    LET t == Strip(s)
    IN  IF IsDigits(t) THEN [raised |-> FALSE, value |-> DecimalValue(t)]
                       ELSE [raised |-> TRUE, value |-> 0]

\* float(s), for the texts of the model: digits give their value, other
\* text raises ValueError.
PyFloat(s) == PyInt(s)

\* the lines of a text file as `for line in f` yields them: each ends with
\* its newline, but for a last line that has none
Lines(s) ==
    LET ends == {i \in 1..Len(s) : s[i] = "\n" \/ i = Len(s)}
        cut(k) == IF k = 0 THEN 0 ELSE Nth(ends, k)
    IN  [k \in 1..Cardinality(ends) |-> SubSeq(s, cut(k - 1) + 1, cut(k))]

\* a dict with no key
EmptyDict == [k \in {} |-> 0]

(***************************************************************************)
(* The literal texts of the scripts.                                       *)
(***************************************************************************)
\* "Results_HW2_MCC_"
PrefixNew ==
    <<"R", "e", "s", "u", "l", "t", "s", "_", "H", "W", "2", "_", "M", "C", "C", "_">>

\* "Results_MCC_"
PrefixOld ==
    <<"R", "e", "s", "u", "l", "t", "s", "_", "M", "C", "C", "_">>

\* ".txt"
DotTxt ==
    <<".", "t", "x", "t">>

\* "txt"
Txt ==
    <<"t", "x", "t">>

\* "ExecutionTime:"
ExecutionTimeColon ==
    <<"E", "x", "e", "c", "u", "t", "i", "o", "n", "T", "i", "m", "e", ":">>

\* "NumberOfHandledCollision:"
CollisionColon ==
    <<"N", "u", "m", "b", "e", "r", "O", "f", "H", "a", "n", "d", "l", "e", "d", "C", "o", "l",
    "l", "i", "s", "i", "o", "n", ":">>

\* "ExecutionTime: "
ExecutionTimeLead ==
    <<"E", "x", "e", "c", "u", "t", "i", "o", "n", "T", "i", "m", "e", ":", " ">>

\* "NumberOfHandledCollision: "
CollisionLead ==
    <<"N", "u", "m", "b", "e", "r", "O", "f", "H", "a", "n", "d", "l", "e", "d", "C", "o", "l",
    "l", "i", "s", "i", "o", "n", ":", " ">>

\* " ms"
SpaceMs ==
    <<" ", "m", "s">>

\* "ms"
Ms ==
    <<"m", "s">>

\* "Results"
TokResults ==
    <<"R", "e", "s", "u", "l", "t", "s">>

\* "HW2"
TokHW2 ==
    <<"H", "W", "2">>

\* "MCC"
TokMCC ==
    <<"M", "C", "C">>

\* "030402"
Tok030402 ==
    <<"0", "3", "0", "4", "0", "2">>

(***************************************************************************)
(* The names and the texts of the result files of the model.               *)
(***************************************************************************)
\* "Results_HW2_MCC_030402_401106039_150K_8_150K_insert_insert_delete_insert.txt"
NameDoc ==
    <<"R", "e", "s", "u", "l", "t", "s", "_", "H", "W", "2", "_", "M", "C", "C", "_", "0", "3",
    "0", "4", "0", "2", "_", "4", "0", "1", "1", "0", "6", "0", "3", "9", "_", "1", "5", "0",
    "K", "_", "8", "_", "1", "5", "0", "K", "_", "i", "n", "s", "e", "r", "t", "_", "i", "n",
    "s", "e", "r", "t", "_", "d", "e", "l", "e", "t", "e", "_", "i", "n", "s", "e", "r", "t",
    ".", "t", "x", "t">>

\* "Results_HW2_MCC_030402_401106039_150K_16_150K_insert.txt"
Name16 ==
    <<"R", "e", "s", "u", "l", "t", "s", "_", "H", "W", "2", "_", "M", "C", "C", "_", "0", "3",
    "0", "4", "0", "2", "_", "4", "0", "1", "1", "0", "6", "0", "3", "9", "_", "1", "5", "0",
    "K", "_", "1", "6", "_", "1", "5", "0", "K", "_", "i", "n", "s", "e", "r", "t", ".", "t",
    "x", "t">>

\* "Results_HW2_MCC_030402_401106039_2M_8_150K_insert.txt"
NameM ==
    <<"R", "e", "s", "u", "l", "t", "s", "_", "H", "W", "2", "_", "M", "C", "C", "_", "0", "3",
    "0", "4", "0", "2", "_", "4", "0", "1", "1", "0", "6", "0", "3", "9", "_", "2", "M", "_",
    "8", "_", "1", "5", "0", "K", "_", "i", "n", "s", "e", "r", "t", ".", "t", "x", "t">>

\* "Results_HW2_MCC_150K_8_2M_ins\.txt" (a backslash before the extension)
NameBs ==
    <<"R", "e", "s", "u", "l", "t", "s", "_", "H", "W", "2", "_", "M", "C", "C", "_", "1", "5",
    "0", "K", "_", "8", "_", "2", "M", "_", "i", "n", "s", "\\", ".", "t", "x", "t">>

\* "Results_HW2_MCC_030402_401106039_150K_8_90K_insert.txt"
NameBad90 ==
    <<"R", "e", "s", "u", "l", "t", "s", "_", "H", "W", "2", "_", "M", "C", "C", "_", "0", "3",
    "0", "4", "0", "2", "_", "4", "0", "1", "1", "0", "6", "0", "3", "9", "_", "1", "5", "0",
    "K", "_", "8", "_", "9", "0", "K", "_", "i", "n", "s", "e", "r", "t", ".", "t", "x", "t">>

\* "Results_MCC_030402_401106039_150000_1_120000.txt"
NameOld1 ==
    <<"R", "e", "s", "u", "l", "t", "s", "_", "M", "C", "C", "_", "0", "3", "0", "4", "0", "2",
    "_", "4", "0", "1", "1", "0", "6", "0", "3", "9", "_", "1", "5", "0", "0", "0", "0", "_",
    "1", "_", "1", "2", "0", "0", "0", "0", ".", "t", "x", "t">>

\* "Results_MCC_030402_401106039_150000_2_120000.txt"
NameOld2 ==
    <<"R", "e", "s", "u", "l", "t", "s", "_", "M", "C", "C", "_", "0", "3", "0", "4", "0", "2",
    "_", "4", "0", "1", "1", "0", "6", "0", "3", "9", "_", "1", "5", "0", "0", "0", "0", "_",
    "2", "_", "1", "2", "0", "0", "0", "0", ".", "t", "x", "t">>

\* "Results_MCC_030402_401106039_150000_2_90000.txt"
NameOld3 ==
    <<"R", "e", "s", "u", "l", "t", "s", "_", "M", "C", "C", "_", "0", "3", "0", "4", "0", "2",
    "_", "4", "0", "1", "1", "0", "6", "0", "3", "9", "_", "1", "5", "0", "0", "0", "0", "_",
    "2", "_", "9", "0", "0", "0", "0", ".", "t", "x", "t">>

\* "Results_MCC_030402_401106039_150000_1.txt" (the table size token is missing)
NameOldShort ==
    <<"R", "e", "s", "u", "l", "t", "s", "_", "M", "C", "C", "_", "0", "3", "0", "4", "0", "2",
    "_", "4", "0", "1", "1", "0", "6", "0", "3", "9", "_", "1", "5", "0", "0", "0", "0", "_",
    "1", ".", "t", "x", "t">>

\* "Results_MCC_notes.txt"
NameOldNotes ==
    <<"R", "e", "s", "u", "l", "t", "s", "_", "M", "C", "C", "_", "n", "o", "t", "e", "s", ".",
    "t", "x", "t">>

\* "Results_HW2_MCC_030402_401106039_150K_16_90K_insert.txt"
NameLocked ==
    <<"R", "e", "s", "u", "l", "t", "s", "_", "H", "W", "2", "_", "M", "C", "C", "_", "0", "3",
    "0", "4", "0", "2", "_", "4", "0", "1", "1", "0", "6", "0", "3", "9", "_", "1", "5", "0",
    "K", "_", "1", "6", "_", "9", "0", "K", "_", "i", "n", "s", "e", "r", "t", ".", "t", "x",
    "t">>

\* "Results_MCC_030402_401106039_150000_4_120000.txt"
NameOld4 ==
    <<"R", "e", "s", "u", "l", "t", "s", "_", "M", "C", "C", "_", "0", "3", "0", "4", "0", "2",
    "_", "4", "0", "1", "1", "0", "6", "0", "3", "9", "_", "1", "5", "0", "0", "0", "0", "_",
    "4", "_", "1", "2", "0", "0", "0", "0", ".", "t", "x", "t">>

\* "Results_HW2_MCC_030402_401106039_150K_8_150K_delete.txt" (the key of NameDoc, another suffix)
NameDup ==
    <<"R", "e", "s", "u", "l", "t", "s", "_", "H", "W", "2", "_", "M", "C", "C", "_", "0", "3",
    "0", "4", "0", "2", "_", "4", "0", "1", "1", "0", "6", "0", "3", "9", "_", "1", "5", "0",
    "K", "_", "8", "_", "1", "5", "0", "K", "_", "d", "e", "l", "e", "t", "e", ".", "t", "x",
    "t">>

\* "Results_HW2_MCC_030402_401106039_150K_16_90K_delete.txt"
Name16of90 ==
    <<"R", "e", "s", "u", "l", "t", "s", "_", "H", "W", "2", "_", "M", "C", "C", "_", "0", "3",
    "0", "4", "0", "2", "_", "4", "0", "1", "1", "0", "6", "0", "3", "9", "_", "1", "5", "0",
    "K", "_", "1", "6", "_", "9", "0", "K", "_", "d", "e", "l", "e", "t", "e", ".", "t", "x",
    "t">>

\* "Results_MCC_030402_401106040_150000_1_120000.txt" (the key of NameOld1, another id)
NameOldDup ==
    <<"R", "e", "s", "u", "l", "t", "s", "_", "M", "C", "C", "_", "0", "3", "0", "4", "0", "2",
    "_", "4", "0", "1", "1", "0", "6", "0", "4", "0", "_", "1", "5", "0", "0", "0", "0", "_",
    "1", "_", "1", "2", "0", "0", "0", "0", ".", "t", "x", "t">>

\* ExecutionTime: 300 ms / NumberOfHandledCollision: 12
Text300 ==
    <<"E", "x", "e", "c", "u", "t", "i", "o", "n", "T", "i", "m", "e", ":", " ", "3", "0", "0",
    " ", "m", "s", "\n", "N", "u", "m", "b", "e", "r", "O", "f", "H", "a", "n", "d", "l", "e",
    "d", "C", "o", "l", "l", "i", "s", "i", "o", "n", ":", " ", "1", "2", "\n">>

\* ExecutionTime: 150 ms / NumberOfHandledCollision: 5
Text150 ==
    <<"E", "x", "e", "c", "u", "t", "i", "o", "n", "T", "i", "m", "e", ":", " ", "1", "5", "0",
    " ", "m", "s", "\n", "N", "u", "m", "b", "e", "r", "O", "f", "H", "a", "n", "d", "l", "e",
    "d", "C", "o", "l", "l", "i", "s", "i", "o", "n", ":", " ", "5", "\n">>

\* three ExecutionTime markers (100, 200, 50) and two collision markers (3, 4)
TextMulti ==
    <<"E", "x", "e", "c", "u", "t", "i", "o", "n", "T", "i", "m", "e", ":", " ", "1", "0", "0",
    " ", "m", "s", "\n", "N", "u", "m", "b", "e", "r", "O", "f", "H", "a", "n", "d", "l", "e",
    "d", "C", "o", "l", "l", "i", "s", "i", "o", "n", ":", " ", "3", "\n", "E", "x", "e", "c",
    "u", "t", "i", "o", "n", "T", "i", "m", "e", ":", " ", "2", "0", "0", " ", "m", "s", "\n",
    "N", "u", "m", "b", "e", "r", "O", "f", "H", "a", "n", "d", "l", "e", "d", "C", "o", "l",
    "l", "i", "s", "i", "o", "n", ":", " ", "4", "\n", "E", "x", "e", "c", "u", "t", "i", "o",
    "n", "T", "i", "m", "e", ":", " ", "5", "0", " ", "m", "s", "\n">>

\* only the ExecutionTime marker
TextTimeOnly ==
    <<"E", "x", "e", "c", "u", "t", "i", "o", "n", "T", "i", "m", "e", ":", " ", "3", "0", "0",
    " ", "m", "s", "\n">>

\* no marker at all
TextNone ==
    <<"n", "o", " ", "r", "e", "s", "u", "l", "t", "\n">>

\* a collision marker whose value is not an integer
TextBadValue ==
    <<"E", "x", "e", "c", "u", "t", "i", "o", "n", "T", "i", "m", "e", ":", " ", "3", "0", "0",
    " ", "m", "s", "\n", "N", "u", "m", "b", "e", "r", "O", "f", "H", "a", "n", "d", "l", "e",
    "d", "C", "o", "l", "l", "i", "s", "i", "o", "n", ":", " ", "a", "b", "c", "\n">>

\* an ExecutionTime marker with its value missing
TextNoValue ==
    <<"E", "x", "e", "c", "u", "t", "i", "o", "n", "T", "i", "m", "e", ":", "\n">>

\* the literal text "ExecutionTime: \d ms"
TextLiteral ==
    <<"E", "x", "e", "c", "u", "t", "i", "o", "n", "T", "i", "m", "e", ":", " ", "\\", "d",
    " ", "m", "s", "\n">>

(***************************************************************************)
(* new_analyze_results.py: the filename parser and the result file reader. *)
(***************************************************************************)
\* parse_size: the result of int() scaled, or the ValueError int() raised
parse_size(size_str) ==
    LET s == Upper(size_str)
        k == PyInt(Remove(s, <<"K">>))
        m == PyInt(Remove(s, <<"M">>))
    IN  IF Contains(s, <<"K">>)
        THEN [raised |-> k.raised, value |-> k.value * 1000]
        ELSE IF Contains(s, <<"M">>)
             THEN [raised |-> m.raised, value |-> m.value * 1000000]
             ELSE PyInt(s)

\* re.search(r"_([^_]+)_(\d+)_([^_]+)_[^_]+\\.txt$", filename): the three
\* groups, or <<>> when nothing matches. In the raw string, \\. is a
\* backslash followed by any character but a newline, so a match ends with
\* a backslash, one character and "txt"; before them come, each after an
\* underscore, four underscore-free tokens, the second one of digits.
FilenameSearch(filename) ==
    LET n == Len(filename)
        T == Split(SubSeq(filename, 1, n - 5), "_")
        k == Len(T)
    IN  IF /\ n >= 5
           /\ filename[n - 4] = "\\"
           /\ filename[n - 3] # "\n"
           /\ SubSeq(filename, n - 2, n) = Txt
           /\ k >= 5
           /\ T[k] # <<>>
           /\ T[k - 1] # <<>>
           /\ IsDigits(T[k - 2])
           /\ T[k - 3] # <<>>
        THEN <<T[k - 3], T[k - 2], T[k - 1]>>
        ELSE <<>>

\* parse_filename: the mapping, or the ValueError of a size token
parse_filename(filename) ==
    LET match == FilenameSearch(filename)
        ds == parse_size(match[1])
        th == PyInt(match[2])
        ts == parse_size(match[3])
    IN  IF match = <<>>
        THEN [raised |-> FALSE, map |-> EmptyDict]
        ELSE IF ds.raised \/ th.raised \/ ts.raised
             THEN [raised |-> TRUE, map |-> EmptyDict]
             ELSE [raised |-> FALSE,
                   map |-> ("dataset_size" :> ds.value)
                           @@ ("threads_or_buffer" :> th.value)
                           @@ ("table_size" :> ts.value)]

\* the last position of a match of  lead \\d+ tail  starting at position i
\* of content, or 0: in the raw string, \\d+ is a backslash followed by one
\* or more letters d
MarkerMatchEnd(content, lead, tail, i) ==
    LET b == i + Len(lead)
        run == CHOOSE r \in 0..Len(content) :
                   /\ \A j \in 1..r : b + j <= Len(content) /\ content[b + j] = "d"
                   /\ ~(b + r + 1 <= Len(content) /\ content[b + r + 1] = "d")
    IN  IF /\ OccursAt(content, lead, i)
           /\ b <= Len(content)
           /\ content[b] = "\\"
           /\ run >= 1
           /\ OccursAt(content, tail, b + run + 1)
        THEN b + run + Len(tail)
        ELSE 0

\* re.findall(lead (\\d+) tail, content): the captured groups, left to
\* right (a match of these patterns cannot begin inside another one)
FindAll(content, lead, tail) ==
    LET starts == {i \in 1..Len(content) : MarkerMatchEnd(content, lead, tail, i) # 0}
    IN  [k \in 1..Cardinality(starts) |->
            LET i == Nth(starts, k)
            IN  SubSeq(content, i + Len(lead),
                       MarkerMatchEnd(content, lead, tail, i) - Len(tail))]

\* sum(int(t) for t in groups)
RECURSIVE SumInts(_)
SumInts(groups) ==
    IF groups = <<>>
    THEN [raised |-> FALSE, value |-> 0]
    ELSE LET h == PyInt(groups[1])
             r == SumInts(Tail(groups))
         IN  [raised |-> h.raised \/ r.raised, value |-> h.value + r.value]

\* read_result_file of a file (a record with its text and whether open()
\* succeeds): the data returned, and whether an error was caught and printed
read_result_file(file) ==
    LET exec_times == FindAll(file.text, ExecutionTimeLead, SpaceMs)
        collisions == FindAll(file.text, CollisionLead, <<>>)
        t == SumInts(exec_times)
        c == SumInts(collisions)
        d1 == IF exec_times # <<>> THEN ("ExecutionTime_ms" :> t.value) ELSE EmptyDict
        d2 == IF collisions # <<>> THEN ("NumberOfHandledCollision" :> c.value) @@ d1 ELSE d1
    IN  IF ~file.readable
        THEN [data |-> EmptyDict, error |-> TRUE]
        ELSE IF exec_times # <<>> /\ t.raised
             THEN [data |-> EmptyDict, error |-> TRUE]
             ELSE IF collisions # <<>> /\ c.raised
                  THEN [data |-> d1, error |-> TRUE]
                  ELSE [data |-> d2, error |-> FALSE]

(***************************************************************************)
(* OLD PLOT/analyze_results.py: the filename parser and the reader.        *)
(***************************************************************************)
\* re.search(r"_(\d+)_(\d+)_(\d+)\.txt$", filename): the three groups, or
\* <<>>: the name ends with ".txt" and, before it, with three tokens of
\* digits, each after an underscore
OldFilenameSearch(filename) ==
    LET n == Len(filename)
        T == Split(SubSeq(filename, 1, n - 4), "_")
        k == Len(T)
    IN  IF /\ EndsWith(filename, DotTxt)
           /\ k >= 4
           /\ IsDigits(T[k])
           /\ IsDigits(T[k - 1])
           /\ IsDigits(T[k - 2])
        THEN <<T[k - 2], T[k - 1], T[k]>>
        ELSE <<>>

old_parse_filename(filename) ==
    LET match == OldFilenameSearch(filename)
    IN  IF match = <<>>
        THEN [raised |-> FALSE, map |-> EmptyDict]
        ELSE [raised |-> FALSE,
              map |-> ("dataset_size" :> PyInt(match[1]).value)
                      @@ ("threads_or_buffer" :> PyInt(match[2]).value)
                      @@ ("table_size" :> PyInt(match[3]).value)]

\* one line of the reader's loop, on the data read so far
OldReadLine(acc, line) ==
    LET field == Split(line, ":")[2]
        t == PyInt(Remove(Strip(field), Ms))
        c == PyInt(Strip(field))
    IN  IF acc.error
        THEN acc
        ELSE IF Contains(line, ExecutionTimeColon)
             THEN IF t.raised
                  THEN [acc EXCEPT !.error = TRUE]
                  ELSE [acc EXCEPT !.data = ("ExecutionTime_ms" :> t.value) @@ acc.data]
             ELSE IF Contains(line, CollisionColon)
                  THEN IF c.raised
                       THEN [acc EXCEPT !.error = TRUE]
                       ELSE [acc EXCEPT !.data =
                                ("NumberOfHandledCollision" :> c.value) @@ acc.data]
                  ELSE acc

RECURSIVE OldReadLines(_, _)
OldReadLines(acc, lines) ==
    IF lines = <<>> THEN acc ELSE OldReadLines(OldReadLine(acc, lines[1]), Tail(lines))

\* read_result_file: each marker line overwrites the value read before it;
\* an exception ends the loop and the data read so far is returned
old_read_result_file(file) ==
    IF ~file.readable
    THEN [data |-> EmptyDict, error |-> TRUE]
    ELSE OldReadLines([data |-> EmptyDict, error |-> FALSE], Lines(file.text))

(***************************************************************************)
(* plot.py: the filename pattern and the parse of one file.                *)
(***************************************************************************)
\* a token  \d+K
IsDigitsK(tok) ==
    Len(tok) >= 2 /\ tok[Len(tok)] = "K" /\ IsDigits(SubSeq(tok, 1, Len(tok) - 1))

\* FNAME_RE.match(fn): the groups data, threads, tsize, or <<>>
FNAME_RE(fn) ==
    LET T == Split(fn, "_")
        k == Len(T)
    IN  IF /\ k >= 9
           /\ T[1] = TokResults /\ T[2] = TokHW2 /\ T[3] = TokMCC /\ T[4] = Tok030402
           /\ T[5] # <<>>
           /\ IsDigitsK(T[6])
           /\ IsDigits(T[7])
           /\ IsDigitsK(T[8])
           /\ EndsWith(T[k], DotTxt)
        THEN <<SubSeq(T[6], 1, Len(T[6]) - 1), T[7], SubSeq(T[8], 1, Len(T[8]) - 1)>>
        ELSE <<>>

\* one line of the loop over the file, on the totals so far; raised names
\* the exception that ended the loop, "" when none did
PlotReadLine(acc, rawline) ==
    LET line == Strip(rawline)
        parts == SplitWs(line)
        t == PyFloat(parts[Len(parts) - 1])
        c == PyFloat(parts[Len(parts)])
    IN  IF acc.raised # ""
        THEN acc
        ELSE IF StartsWith(line, ExecutionTimeColon)
             THEN IF Len(parts) < 2
                  THEN [acc EXCEPT !.raised = "IndexError"]
                  ELSE IF t.raised
                       THEN [acc EXCEPT !.raised = "ValueError"]
                       ELSE [acc EXCEPT !.time = acc.time + t.value]
             ELSE IF StartsWith(line, CollisionColon)
                  THEN IF c.raised
                       THEN [acc EXCEPT !.raised = "ValueError"]
                       ELSE [acc EXCEPT !.coll = acc.coll + c.value]
                  ELSE acc

RECURSIVE PlotReadLines(_, _)
PlotReadLines(acc, lines) ==
    IF lines = <<>> THEN acc ELSE PlotReadLines(PlotReadLine(acc, lines[1]), Tail(lines))

\* total_time and total_coll of one file (lines 33-43), or the exception
PlotReadFile(file) ==
    IF ~file.readable
    THEN [raised |-> "OSError", time |-> 0, coll |-> 0]
    ELSE PlotReadLines([raised |-> "", time |-> 0, coll |-> 0], Lines(file.text))

(***************************************************************************)
(* The files a results directory of the model can hold: a name, a text,    *)
(* and whether open() on it succeeds.                                      *)
(***************************************************************************)
Files ==
    << [name |-> NameDoc,      text |-> Text300,      readable |-> TRUE],
       [name |-> Name16,       text |-> Text150,      readable |-> TRUE],
       [name |-> NameM,        text |-> TextMulti,    readable |-> TRUE],
       [name |-> NameBs,       text |-> TextLiteral,  readable |-> TRUE],
       [name |-> NameBad90,    text |-> TextNoValue,  readable |-> TRUE],
       [name |-> NameOld1,     text |-> Text300,      readable |-> TRUE],
       [name |-> NameOld2,     text |-> TextTimeOnly, readable |-> TRUE],
       [name |-> NameOld3,     text |-> Text150,      readable |-> TRUE],
       [name |-> NameOldShort, text |-> TextMulti,    readable |-> TRUE],
       [name |-> NameOldNotes, text |-> TextBadValue, readable |-> TRUE],
       [name |-> NameLocked,   text |-> <<>>,         readable |-> FALSE],
       [name |-> NameOld4,     text |-> TextNone,     readable |-> TRUE],
       [name |-> NameDup,      text |-> Text150,      readable |-> TRUE],
       [name |-> Name16of90,   text |-> Text150,      readable |-> TRUE],
       [name |-> NameOldDup,   text |-> Text150,      readable |-> TRUE] >>

FileIds == DOMAIN Files

(***************************************************************************)
(* The state: the file system, and the run in progress.                    *)
(***************************************************************************)
VARIABLES
    resultsDir,     \* "results": whether it exists, and the files in it
    plotsDirs,      \* "plots" and "new_plots": whether each exists, its images
    script,         \* the script of the run in progress (or of the last run)
    pc,             \* where the run is
    todo,           \* the files the directory listing has yet to yield
    all_data,       \* main: the records collected from the files
    df,             \* main: the cleaned records
    data,           \* plot.py: data[(ds, ts)][threads] -> time and coll
    queue,          \* the iterations a chart loop has yet to make
    charts,         \* the images this run has drawn, with their bars
    outcome,        \* how the run ended
    log,            \* what the run has printed
    dirBefore,      \* the images the output directory held when the run began
    inputsChanged,  \* whether the results directory changed since the last run
    sameAsPrev      \* whether the last run was of this script on these inputs

vars == <<resultsDir, plotsDirs, script, pc, todo, all_data, df, data, queue,
          charts, outcome, log, dirBefore, inputsChanged, sameAsPrev>>

runLocals == <<todo, all_data, df, data, queue, charts, outcome, log>>

AnalyzeScripts == {"new", "old"}

\* results_dir and plots_dir of each script
PlotsDirOf(s) == IF s = "new" THEN "new_plots" ELSE "plots"

\* the prefix of the files main looks at
PrefixOf(s) == IF s = "new" THEN PrefixNew ELSE PrefixOld

\* The parsers and the readers are functions of the name or of the content of
\* a file alone: what each gives for each file of the model, computed once.
NewParams == [f \in FileIds |-> parse_filename(Files[f].name)]

OldParams == [f \in FileIds |-> old_parse_filename(Files[f].name)]

NewContentData == [f \in FileIds |-> read_result_file(Files[f])]

OldContentData == [f \in FileIds |-> old_read_result_file(Files[f])]

\* FNAME_RE.match(fn) of plot.py
PlotMatch == [f \in FileIds |-> FNAME_RE(Files[f].name)]

\* total_time and total_coll of plot.py
PlotTotals == [f \in FileIds |-> PlotReadFile(Files[f])]

ParseOf(s, f) == IF s = "new" THEN NewParams[f] ELSE OldParams[f]

ReadOf(s, f) == IF s = "new" THEN NewContentData[f] ELSE OldContentData[f]

\* `if file_params and file_content_data` / `if file_content_data`
Retained(s, file_params, file_content_data) ==
    IF s = "new"
    THEN DOMAIN file_params # {} /\ DOMAIN file_content_data # {}
    ELSE DOMAIN file_content_data # {}

\* {**file_params, **file_content_data, "filename": filename}
Combined(file_params, file_content_data, filename) ==
    ("filename" :> filename) @@ file_content_data @@ file_params

Init ==
    /\ resultsDir = [exists |-> FALSE, files |-> {}]
    /\ plotsDirs = [d \in {"plots", "new_plots"} |-> [exists |-> FALSE, images |-> {}]]
    /\ script = "none"
    /\ pc = "idle"
    /\ todo = {}
    /\ all_data = <<>>
    /\ df = <<>>
    /\ data = EmptyDict
    /\ queue = <<>>
    /\ charts = {}
    /\ outcome = "none"
    /\ log = {}
    /\ dirBefore = {}
    /\ inputsChanged = FALSE
    /\ sameAsPrev = FALSE

(***************************************************************************)
(* The environment: the benchmark writes and removes result files between  *)
(* runs.                                                                   *)
(***************************************************************************)
MakeResultsDir ==
    /\ pc = "idle"
    /\ ~resultsDir.exists
    /\ resultsDir' = [exists |-> TRUE, files |-> {}]
    /\ inputsChanged' = TRUE
    /\ UNCHANGED <<plotsDirs, script, pc, runLocals, dirBefore, sameAsPrev>>

RemoveResultsDir ==
    /\ pc = "idle"
    /\ resultsDir.exists
    /\ resultsDir.files = {}
    /\ resultsDir' = [exists |-> FALSE, files |-> {}]
    /\ inputsChanged' = TRUE
    /\ UNCHANGED <<plotsDirs, script, pc, runLocals, dirBefore, sameAsPrev>>

CreateFile ==
    /\ pc = "idle"
    /\ resultsDir.exists
    /\ Cardinality(resultsDir.files) < MaxFiles
    /\ \E f \in FileIds \ resultsDir.files :
           resultsDir' = [resultsDir EXCEPT !.files = @ \cup {f}]
    /\ inputsChanged' = TRUE
    /\ UNCHANGED <<plotsDirs, script, pc, runLocals, dirBefore, sameAsPrev>>

DeleteFile ==
    /\ pc = "idle"
    /\ \E f \in resultsDir.files :
           resultsDir' = [resultsDir EXCEPT !.files = @ \ {f}]
    /\ inputsChanged' = TRUE
    /\ UNCHANGED <<plotsDirs, script, pc, runLocals, dirBefore, sameAsPrev>>

(***************************************************************************)
(* main of new_analyze_results.py and of OLD PLOT/analyze_results.py: the  *)
(* two differ in the prefix, the parser, the reader, the condition to keep *)
(* a file and the output directory, and share the rest line for line.      *)
(***************************************************************************)
numeric_cols ==
    {"dataset_size", "threads_or_buffer", "table_size", "ExecutionTime_ms",
     "NumberOfHandledCollision"}

\* the columns of pd.DataFrame(all_data): every key of every record
Columns(records) == UNION {DOMAIN records[i] : i \in DOMAIN records}

\* df[col] raises KeyError for a column no record has
CleanRaises(records) == \E col \in numeric_cols : col \notin Columns(records)

\* a row passes df.dropna(subset=numeric_cols) when it has every column
HasAll(r) == \A col \in numeric_cols : col \in DOMAIN r

\* the cleaning with NumberOfHandledCollision left out of the dropna subset
MutCleanKeepsNoCollision(records) ==
    SelectSeq(records,
              LAMBDA r : \A col \in numeric_cols \ {"NumberOfHandledCollision"} :
                             col \in DOMAIN r)

\* to_numeric / dropna / astype(int): the values are integers already, a
\* record that lacks a column holds NaN there and is dropped
Clean(records) == SelectSeq(records, HasAll)

\* sorted(S) of a set of integers
RECURSIVE Sorted(_)
Sorted(S) ==
    IF S = {}
    THEN <<>>
    ELSE LET m == CHOOSE x \in S : \A y \in S : x <= y
         IN  <<m>> \o Sorted(S \ {m})

Range(s) == {s[i] : i \in DOMAIN s}

\* sorted(df["dataset_size"].unique())
unique_dataset_sizes(rows) == Sorted({rows[i]["dataset_size"] : i \in DOMAIN rows})

\* df[["dataset_size", "table_size"]].drop_duplicates().values: the pairs in
\* the order of their first row
RECURSIVE unique_combinations(_)
unique_combinations(rows) ==
    IF rows = <<>>
    THEN <<>>
    ELSE LET rest == unique_combinations(SubSeq(rows, 1, Len(rows) - 1))
             pair == <<rows[Len(rows)]["dataset_size"], rows[Len(rows)]["table_size"]>>
         IN  IF pair \in Range(rest) THEN rest ELSE Append(rest, pair)

\* the rows of one dataset size
OfDataset(rows, ds_size) == SelectSeq(rows, LAMBDA r : r["dataset_size"] = ds_size)

\* sum of a column over rows
RECURSIVE SumCol(_, _)
SumCol(rows, col) == IF rows = <<>> THEN 0 ELSE rows[1][col] + SumCol(Tail(rows), col)

\* Python's int() of the non-negative fraction num/den: truncation
IntOf(h) == h.num \div h.den

\* Python's f"{x:.0f}" of the non-negative fraction num/den: to the nearest
\* integer, a tie to the even one
Round0(h) ==
    LET q == h.num \div h.den
        r2 == 2 * (h.num % h.den)
    IN  IF r2 < h.den THEN q
        ELSE IF r2 > h.den THEN q + 1
        ELSE IF q % 2 = 0 THEN q ELSE q + 1

\* one cell of subset_df.pivot_table(index="threads_or_buffer",
\* columns="table_size", values=col): the mean of the rows of the cell, as
\* a fraction; a cell with no row is NaN, which the bar plot draws as 0
PivotCell(rows, col, th, ts) ==
    LET cell == SelectSeq(rows, LAMBDA r : r["threads_or_buffer"] = th /\ r["table_size"] = ts)
    IN  IF cell = <<>>
        THEN [nodata |-> TRUE, num |-> 0, den |-> 1]
        ELSE [nodata |-> FALSE, num |-> SumCol(cell, col), den |-> Len(cell)]

\* the bars of the pivot with the cells that have no row left out, not drawn
\* at height 0
MutPivotBarsSkipsEmpty(rows, col, fmt) ==
    LET index == Sorted({rows[i]["threads_or_buffer"] : i \in DOMAIN rows})
        columns == Sorted({rows[i]["table_size"] : i \in DOMAIN rows})
        n == Len(index)
        all == [k \in 1..(Len(columns) * n) |->
                   LET ts == columns[((k - 1) \div n) + 1]
                       th == index[((k - 1) % n) + 1]
                       h == PivotCell(rows, col, th, ts)
                   IN  [threads |-> th, table_size |-> ts, nodata |-> h.nodata,
                        height |-> [num |-> h.num, den |-> h.den],
                        label |-> IF fmt = "int" THEN IntOf(h) ELSE Round0(h)]]
    IN  SelectSeq(all, LAMBDA b : ~b.nodata)

\* the patches of pivot.plot(kind='bar'): one bar per cell, the columns
\* (table sizes) one after the other, each over the index (thread counts);
\* fmt is the annotation of a bar: "int" for int(p.get_height()), ".0f" for
\* f"{p.get_height():.0f}"
PivotBars(rows, col, fmt) ==
    LET index == Sorted({rows[i]["threads_or_buffer"] : i \in DOMAIN rows})
        columns == Sorted({rows[i]["table_size"] : i \in DOMAIN rows})
        n == Len(index)
    IN  [k \in 1..(Len(columns) * n) |->
            LET ts == columns[((k - 1) \div n) + 1]
                th == index[((k - 1) % n) + 1]
                h == PivotCell(rows, col, th, ts)
            IN  [threads |-> th, table_size |-> ts, nodata |-> h.nodata,
                 height |-> [num |-> h.num, den |-> h.den],
                 label |-> IF fmt = "int" THEN IntOf(h) ELSE Round0(h)]]

\* lines 96-127: the collision chart of one dataset size
CollisionChart(rows, ds_size) ==
    [name |-> <<"collisions_dataset_", ds_size, ".png">>,
     bars |-> PivotBars(OfDataset(rows, ds_size), "NumberOfHandledCollision", "int")]

\* sort_values(by="threads_or_buffer") of rows
SortByThreads(rows) ==
    LET index == Sorted({rows[i]["threads_or_buffer"] : i \in DOMAIN rows})
        F[k \in 0..Len(index)] ==
            IF k = 0 THEN <<>>
            ELSE F[k - 1] \o SelectSeq(rows, LAMBDA r : r["threads_or_buffer"] = index[k])
    IN  F[Len(index)]

\* lines 132-163: the execution time chart of one (dataset size, table size)
ExecTimeChart(rows, ds_size, ts_size) ==
    LET subset_df == SortByThreads(SelectSeq(rows,
                         LAMBDA r : r["dataset_size"] = ds_size /\ r["table_size"] = ts_size))
    IN  [name |-> <<"exectime_dataset_", ds_size, "_tsize_", ts_size, ".png">>,
         bars |-> [k \in DOMAIN subset_df |->
                     [threads |-> subset_df[k]["threads_or_buffer"],
                      table_size |-> ts_size,
                      nodata |-> FALSE,
                      height |-> [num |-> subset_df[k]["ExecutionTime_ms"], den |-> 1],
                      label |-> subset_df[k]["ExecutionTime_ms"]]]]

\* lines 166-198: the grouped execution time chart of one dataset size
GroupedChart(rows, ds_size) ==
    [name |-> <<"exectime_grouped_dataset_", ds_size, ".png">>,
     bars |-> PivotBars(OfDataset(rows, ds_size), "ExecutionTime_ms", ".0f")]

\* an image saved under a running number, not under the name of its keys
MutSaveFigNumbered(dirs, d, chart) ==
    [dirs EXCEPT ![d].images =
        @ \cup {<<chart.name[1], Cardinality(dirs[d].images), ".png">>}]

\* plt.savefig into the output directory
SaveFig(dirs, d, chart) == [dirs EXCEPT ![d].images = @ \cup {chart.name}]

\* the output directory made when missing, its old contents kept
MutRecreateDirKeeps(dirs, d) == [dirs EXCEPT ![d].exists = TRUE]

\* lines 58-60: shutil.rmtree(plots_dir) when it exists, then os.makedirs
RecreateDir(dirs, d) == [dirs EXCEPT ![d] = [exists |-> TRUE, images |-> {}]]

\* lines 54-64: the output directory is removed and made again, then the
\* results directory is looked for
AnalyzeStart ==
    /\ pc = "idle"
    /\ \E s \in AnalyzeScripts :
        /\ script' = s
        /\ sameAsPrev' = (script = s /\ ~inputsChanged)
        /\ dirBefore' = plotsDirs[PlotsDirOf(s)].images
        /\ plotsDirs' = RecreateDir(plotsDirs, PlotsDirOf(s))
    /\ inputsChanged' = FALSE
    /\ IF resultsDir.exists
       THEN /\ pc' = "list"
            /\ todo' = resultsDir.files
            /\ UNCHANGED <<outcome, log>>
       ELSE /\ pc' = "done"
            /\ outcome' = "not_found"
            /\ log' = {<<"Directory not found", 0>>}
            /\ UNCHANGED todo
    /\ UNCHANGED <<resultsDir, all_data, df, data, queue, charts>>

\* lines 66-75: one file of os.listdir(results_dir), in whatever order the
\* listing yields them
AnalyzeListFile ==
    /\ pc = "list"
    /\ script \in AnalyzeScripts
    /\ \E f \in todo :
        LET filename == Files[f].name
            file_params == ParseOf(script, f)
            file_content_data == ReadOf(script, f)
        IN  /\ todo' = todo \ {f}
            /\ IF ~(StartsWith(filename, PrefixOf(script)) /\ EndsWith(filename, DotTxt))
               THEN UNCHANGED <<pc, all_data, outcome, log>>
               ELSE IF file_params.raised
                    THEN /\ pc' = "done"
                         /\ outcome' = "ValueError"
                         /\ UNCHANGED <<all_data, log>>
                    ELSE /\ log' = IF file_content_data.error
                                   THEN log \cup {<<"Error reading", f>>}
                                   ELSE log
                         /\ all_data' =
                                IF Retained(script, file_params.map, file_content_data.data)
                                THEN Append(all_data,
                                            Combined(file_params.map, file_content_data.data,
                                                     filename))
                                ELSE all_data
                         /\ UNCHANGED <<pc, outcome>>
    /\ UNCHANGED <<resultsDir, plotsDirs, script, df, data, queue, charts, dirBefore,
                   inputsChanged, sameAsPrev>>

\* lines 77-79: nothing was collected
AnalyzeNoData ==
    /\ pc = "list"
    /\ script \in AnalyzeScripts
    /\ todo = {}
    /\ all_data = <<>>
    /\ pc' = "done"
    /\ outcome' = "no_data"
    /\ log' = log \cup {<<"No data processed", 0>>}
    /\ UNCHANGED <<resultsDir, plotsDirs, script, todo, all_data, df, data, queue, charts,
                   dirBefore, inputsChanged, sameAsPrev>>

\* lines 81-94: the records are made a table, cleaned, and the dataset
\* sizes of the first chart loop are taken
AnalyzeClean ==
    /\ pc = "list"
    /\ script \in AnalyzeScripts
    /\ todo = {}
    /\ all_data # <<>>
    /\ IF CleanRaises(all_data)
       THEN /\ pc' = "done"
            /\ outcome' = "KeyError"
            /\ UNCHANGED <<df, queue>>
       ELSE /\ pc' = "collision"
            /\ df' = Clean(all_data)
            /\ queue' = unique_dataset_sizes(Clean(all_data))
            /\ UNCHANGED outcome
    /\ UNCHANGED <<resultsDir, plotsDirs, script, todo, all_data, data, charts, log,
                   dirBefore, inputsChanged, sameAsPrev>>

\* lines 96-127: one turn of the collision chart loop
CollisionPlot ==
    /\ pc = "collision"
    /\ queue # <<>>
    /\ LET chart == CollisionChart(df, Head(queue))
       IN  /\ charts' = charts \cup {chart}
           /\ plotsDirs' = SaveFig(plotsDirs, PlotsDirOf(script), chart)
           /\ log' = log \cup {<<"Generated", chart.name>>}
    /\ queue' = Tail(queue)
    /\ UNCHANGED <<resultsDir, script, pc, todo, all_data, df, data, outcome, dirBefore,
                   inputsChanged, sameAsPrev>>

\* lines 132-163: one turn of the execution time chart loop
ExecTimePlot ==
    /\ pc = "exectime"
    /\ queue # <<>>
    /\ LET chart == ExecTimeChart(df, Head(queue)[1], Head(queue)[2])
       IN  /\ charts' = charts \cup {chart}
           /\ plotsDirs' = SaveFig(plotsDirs, PlotsDirOf(script), chart)
           /\ log' = log \cup {<<"Generated", chart.name>>}
    /\ queue' = Tail(queue)
    /\ UNCHANGED <<resultsDir, script, pc, todo, all_data, df, data, outcome, dirBefore,
                   inputsChanged, sameAsPrev>>

\* lines 166-198: one turn of the grouped execution time chart loop
GroupedPlot ==
    /\ pc = "grouped"
    /\ queue # <<>>
    /\ LET chart == GroupedChart(df, Head(queue))
       IN  /\ charts' = charts \cup {chart}
           /\ plotsDirs' = SaveFig(plotsDirs, PlotsDirOf(script), chart)
           /\ log' = log \cup {<<"Generated", chart.name>>}
    /\ queue' = Tail(queue)
    /\ UNCHANGED <<resultsDir, script, pc, todo, all_data, df, data, outcome, dirBefore,
                   inputsChanged, sameAsPrev>>

\* a chart loop of main ends and the next one begins; after the last, main
\* returns
AnalyzeNextLoop ==
    /\ pc \in {"collision", "exectime", "grouped"}
    /\ queue = <<>>
    /\ pc' = IF pc = "collision" THEN "exectime"
             ELSE IF pc = "exectime" THEN "grouped" ELSE "done"
    /\ queue' = IF pc = "collision" THEN unique_combinations(df)
                ELSE IF pc = "exectime" THEN unique_dataset_sizes(df) ELSE <<>>
    /\ outcome' = IF pc = "grouped" THEN "returned" ELSE outcome
    /\ UNCHANGED <<resultsDir, plotsDirs, script, todo, all_data, df, data, charts, log,
                   dirBefore, inputsChanged, sameAsPrev>>

(***************************************************************************)
(* plot.py: the script runs top to bottom at module level.                 *)
(***************************************************************************)
\* the value a missing key of the inner defaultdict is given
DefaultCell == [time |-> 0, coll |-> 0]

\* data[key][th] = cell, both defaultdicts making what is missing
SetCell(d, key, th, cell) ==
    LET inner == IF key \in DOMAIN d THEN d[key] ELSE EmptyDict
    IN  (key :> ((th :> cell) @@ inner)) @@ d

\* sorted() of a set of (ds, ts) pairs
RECURSIVE SortedPairs(_)
SortedPairs(S) ==
    IF S = {}
    THEN <<>>
    ELSE LET m == CHOOSE x \in S :
                      \A y \in S : x[1] < y[1] \/ (x[1] = y[1] /\ x[2] <= y[2])
         IN  <<m>> \o SortedPairs(S \ {m})

\* the turns of the loops of lines 94-98: each measure over sorted(data.items())
IndividualTurns(d) ==
    LET keys == SortedPairs(DOMAIN d)
    IN  [k \in 1..(2 * Len(keys)) |->
            IF k <= Len(keys) THEN <<"time", keys[k]>> ELSE <<"coll", keys[k - Len(keys)]>>]

\* lines 99-104 and draw_bar_plot: the chart of one measure of one (ds, ts)
IndividualChart(d, measure, key) ==
    LET th_dict == d[key]
        threads == Sorted(DOMAIN th_dict)
        prefix == IF measure = "time" THEN "exectime_" ELSE "collision_"
    IN  [name |-> <<prefix, key[1], "K_", key[2], "K.png">>,
         bars |-> [k \in DOMAIN threads |->
                     [threads |-> threads[k],
                      table_size |-> key[2],
                      nodata |-> FALSE,
                      height |-> [num |-> th_dict[threads[k]][measure], den |-> 1],
                      label |-> th_dict[threads[k]][measure]]]]

\* the thread counts taken from the first table size of the dataset alone,
\* as if they were the same for each table size
MutGroupThreadsOfFirst(d, ds) ==
    LET keys == {x \in DOMAIN d : x[1] = ds}
        first == CHOOSE x \in keys : \A y \in keys : x[2] <= y[2]
    IN  Sorted(DOMAIN d[first])

\* lines 114-116: every thread count of a dataset size, sorted
GroupThreads(d, ds) ==
    Sorted(UNION {DOMAIN d[key] : key \in {x \in DOMAIN d : x[1] = ds}})

\* lines 117: the table sizes of a dataset size, sorted
GroupTsizes(d, ds) == Sorted({key[2] : key \in {x \in DOMAIN d : x[1] = ds}})

\* lines 120-124: ts_dict[ts][t] makes the entry of a thread count that a
\* table size lacks, in data itself: by_ds holds the inner dicts of data
FillGroup(d, ds) ==
    LET threads == Range(GroupThreads(d, ds))
    IN  [key \in DOMAIN d |->
            IF key[1] = ds
            THEN [t \in threads |-> IF t \in DOMAIN d[key] THEN d[key][t] ELSE DefaultCell]
            ELSE d[key]]

\* lines 112-174: the grouped collision chart of one dataset size
GroupChart(d, ds) ==
    LET threads == GroupThreads(d, ds)
        tsizes == GroupTsizes(d, ds)
        n == Len(threads)
        filled == FillGroup(d, ds)
    IN  [name |-> <<"collision_group_", ds, "K.png">>,
         bars |-> [k \in 1..(Len(tsizes) * n) |->
                     LET ts == tsizes[((k - 1) \div n) + 1]
                         t == threads[((k - 1) % n) + 1]
                     IN  [threads |-> t,
                          table_size |-> ts,
                          nodata |-> t \notin DOMAIN d[<<ds, ts>>],
                          height |-> [num |-> filled[<<ds, ts>>][t].coll, den |-> 1],
                          label |-> filled[<<ds, ts>>][t].coll]]]

\* lines 10-23: the output directory is made if it is missing, and the
\* *.txt files of the results directory are globbed (none when it is missing)
PlotStart ==
    /\ pc = "idle"
    /\ script' = "plot"
    /\ sameAsPrev' = (script = "plot" /\ ~inputsChanged)
    /\ inputsChanged' = FALSE
    /\ dirBefore' = plotsDirs["plots"].images
    /\ plotsDirs' = [plotsDirs EXCEPT !["plots"].exists = TRUE]
    /\ todo' = {f \in resultsDir.files : EndsWith(Files[f].name, DotTxt)}
    /\ pc' = "parse"
    /\ UNCHANGED <<resultsDir, all_data, df, data, queue, charts, outcome, log>>

\* lines 23-46: one file of the glob; an exception of the read ends the
\* script with a traceback
PlotParseFile ==
    /\ pc = "parse"
    /\ \E f \in todo :
        LET m == PlotMatch[f]
            ds == PyInt(m[1]).value
            ts == PyInt(m[3]).value
            th == PyInt(m[2]).value
            totals == PlotTotals[f]
        IN  /\ todo' = todo \ {f}
            /\ IF m = <<>>
               THEN UNCHANGED <<pc, data, outcome>>
               ELSE IF totals.raised # ""
                    THEN /\ pc' = "done"
                         /\ outcome' = totals.raised
                         /\ UNCHANGED data
                    ELSE /\ data' = SetCell(data, <<ds, ts>>, th,
                                            [time |-> totals.time, coll |-> totals.coll])
                         /\ UNCHANGED <<pc, outcome>>
    /\ UNCHANGED <<resultsDir, plotsDirs, script, all_data, df, queue, charts, log,
                   dirBefore, inputsChanged, sameAsPrev>>

\* lines 94-104: one chart of the individual plots
PlotIndividual ==
    /\ pc = "individual"
    /\ queue # <<>>
    /\ LET chart == IndividualChart(data, Head(queue)[1], Head(queue)[2])
       IN  /\ charts' = charts \cup {chart}
           /\ plotsDirs' = SaveFig(plotsDirs, "plots", chart)
    /\ queue' = Tail(queue)
    /\ UNCHANGED <<resultsDir, script, pc, todo, all_data, df, data, outcome, log,
                   dirBefore, inputsChanged, sameAsPrev>>

\* lines 112-174: one grouped collision chart
PlotGrouped ==
    /\ pc = "group"
    /\ queue # <<>>
    /\ LET chart == GroupChart(data, Head(queue))
       IN  /\ charts' = charts \cup {chart}
           /\ plotsDirs' = SaveFig(plotsDirs, "plots", chart)
    /\ data' = FillGroup(data, Head(queue))
    /\ queue' = Tail(queue)
    /\ UNCHANGED <<resultsDir, script, pc, todo, all_data, df, outcome, log,
                   dirBefore, inputsChanged, sameAsPrev>>

\* the parse loop ends and the individual plots begin; they end and the
\* grouped plots begin (lines 108-112); they end and line 176 prints Done
PlotNextLoop ==
    /\ \/ pc = "parse" /\ todo = {}
       \/ pc \in {"individual", "group"} /\ queue = <<>> /\ script = "plot"
    /\ pc' = IF pc = "parse" THEN "individual"
             ELSE IF pc = "individual" THEN "group" ELSE "done"
    /\ queue' = IF pc = "parse" THEN IndividualTurns(data)
                ELSE IF pc = "individual" THEN Sorted({key[1] : key \in DOMAIN data})
                ELSE <<>>
    /\ outcome' = IF pc = "group" THEN "returned" ELSE outcome
    /\ log' = IF pc = "group" THEN log \cup {<<"Done!", 0>>} ELSE log
    /\ UNCHANGED <<resultsDir, plotsDirs, script, todo, all_data, df, data, charts,
                   dirBefore, inputsChanged, sameAsPrev>>

(***************************************************************************)
(* The process of a run ends: what it held in memory is gone, the          *)
(* directories stay.                                                       *)
(***************************************************************************)
Exit ==
    /\ pc = "done"
    /\ pc' = "idle"
    /\ todo' = {}
    /\ all_data' = <<>>
    /\ df' = <<>>
    /\ data' = EmptyDict
    /\ queue' = <<>>
    /\ charts' = {}
    /\ outcome' = "none"
    /\ log' = {}
    /\ dirBefore' = {}
    /\ sameAsPrev' = FALSE
    /\ UNCHANGED <<resultsDir, plotsDirs, script, inputsChanged>>

Next ==
    \/ MakeResultsDir
    \/ RemoveResultsDir
    \/ CreateFile
    \/ DeleteFile
    \/ AnalyzeStart
    \/ AnalyzeListFile
    \/ AnalyzeNoData
    \/ AnalyzeClean
    \/ CollisionPlot
    \/ ExecTimePlot
    \/ GroupedPlot
    \/ AnalyzeNextLoop
    \/ PlotStart
    \/ PlotParseFile
    \/ PlotIndividual
    \/ PlotGrouped
    \/ PlotNextLoop
    \/ Exit

Spec == Init /\ [][Next]_vars

(***************************************************************************)
(* What the specification says of the names and the texts of the result    *)
(* files, stated apart from the code of the scripts.                       *)
(***************************************************************************)
\* a size token: digits, optionally followed by K or M
IsSizeToken(tok) ==
    \/ IsDigits(tok)
    \/ /\ Len(tok) >= 2
       /\ tok[Len(tok)] \in {"K", "M"}
       /\ IsDigits(SubSeq(tok, 1, Len(tok) - 1))

\* the integer a size token encodes: K is a thousand, M a million
SizeTokenValue(tok) ==
    IF IsDigits(tok)
    THEN DecimalValue(tok)
    ELSE DecimalValue(SubSeq(tok, 1, Len(tok) - 1))
         * (IF tok[Len(tok)] = "K" THEN 1000 ELSE 1000000)

\* Results_HW2_MCC_030402_<id>_<datasetSizeToken>_<threadCount>_<tableSizeToken>_<suffix>.txt
FollowsConvention(name) ==
    LET T == Split(name, "_")
    IN  /\ EndsWith(name, DotTxt)
        /\ Len(T) >= 9
        /\ T[1] = TokResults /\ T[2] = TokHW2 /\ T[3] = TokMCC /\ T[4] = Tok030402
        /\ T[5] # <<>>
        /\ IsSizeToken(T[6])
        /\ IsDigits(T[7])
        /\ IsSizeToken(T[8])

\* the three integers such a name encodes
Encoded(name) ==
    LET T == Split(name, "_")
    IN  [dataset_size |-> SizeTokenValue(T[6]),
         threads_or_buffer |-> DecimalValue(T[7]),
         table_size |-> SizeTokenValue(T[8])]

\* Results_MCC_030402_<id>_<datasetSize>_<threadCount>_<tableSize>.txt
FollowsOldConvention(name) ==
    LET T == Split(SubSeq(name, 1, Len(name) - 4), "_")
    IN  /\ EndsWith(name, DotTxt)
        /\ Len(T) = 7
        /\ T[1] = TokResults /\ T[2] = TokMCC
        /\ IsDigits(T[5]) /\ IsDigits(T[6]) /\ IsDigits(T[7])

\* a file name main of script s looks at
Candidate(s, name) == StartsWith(name, PrefixOf(s)) /\ EndsWith(name, DotTxt)

\* a candidate name that does not follow the convention of script s
Malformed(s, name) ==
    /\ Candidate(s, name)
    /\ ~(IF s = "new" THEN FollowsConvention(name) ELSE FollowsOldConvention(name))

\* whether a line is the marker  lead<n>tail  with n an integer
IsMarkerLine(line, lead, tail) ==
    LET s == Strip(line)
    IN  /\ StartsWith(s, lead)
        /\ EndsWith(Drop(s, Len(lead)), tail)
        /\ IsDigits(SubSeq(s, Len(lead) + 1, Len(s) - Len(tail)))

\* the values of the markers  lead<n>tail  of a text, in the order of the lines
EmbeddedValues(text, lead, tail) ==
    LET L == Lines(text)
        marked == {k \in DOMAIN L : IsMarkerLine(L[k], lead, tail)}
    IN  [j \in 1..Cardinality(marked) |->
            LET s == Strip(L[Nth(marked, j)])
            IN  DecimalValue(SubSeq(s, Len(lead) + 1, Len(s) - Len(tail)))]

RECURSIVE SumSeq(_)
SumSeq(s) == IF s = <<>> THEN 0 ELSE s[1] + SumSeq(Tail(s))

\* a file whose content cannot be read or parsed: open() fails on it, or a
\* marker line of it has no integer value
ReadFails(file) ==
    \/ ~file.readable
    \/ \E k \in DOMAIN Lines(file.text) :
           LET line == Lines(file.text)[k]
           IN  \/ /\ StartsWith(Strip(line), ExecutionTimeColon)
                  /\ ~IsMarkerLine(line, ExecutionTimeLead, SpaceMs)
               \/ /\ StartsWith(Strip(line), CollisionColon)
                  /\ ~IsMarkerLine(line, CollisionLead, <<>>)

\* what the reader of the running script returns for a file under a key
ReaderHas(s, f, key) ==
    IF s = "plot" THEN PlotReadFile(Files[f]).raised = "" ELSE key \in DOMAIN ReadOf(s, f).data

ReaderValue(s, f, key) ==
    IF s = "plot"
    THEN IF key = "ExecutionTime_ms" THEN PlotReadFile(Files[f]).time
                                     ELSE PlotReadFile(Files[f]).coll
    ELSE ReadOf(s, f).data[key]

\* the file of the model with a given name
FileNamed(name) == CHOOSE f \in FileIds : Files[f].name = name

\* the images the run in progress has written, and its output directory
Generated == {c.name : c \in charts}

OutputDir == plotsDirs[PlotsDirOf(script)].images

\* the cleaned dataset of main exists
DatasetCleaned ==
    /\ script \in AnalyzeScripts
    /\ \/ pc \in {"collision", "exectime", "grouped"}
       \/ pc = "done" /\ outcome = "returned"

\* a chart has exactly the bars of the given thread counts and heights
BarsAre(c, threads, heights) ==
    /\ Len(c.bars) = Len(threads)
    /\ \A k \in DOMAIN threads :
           /\ c.bars[k].threads = threads[k]
           /\ c.bars[k].height.num = heights[k] * c.bars[k].height.den

(***************************************************************************)
(* The claims.                                                             *)
(***************************************************************************)
\* C1: for every file name that follows the convention
\* <prefix>_<datasetSizeToken>_<threadCount>_<tableSizeToken>_<suffix>.txt,
\* parse_filename returns a non-empty mapping holding exactly the three
\* encoded integers, a K token scaled by 1000 and an M token by 1000000.
C1_ParserRecoversEncodedIntegers ==
    (script = "new" /\ pc = "list") =>
        \A f \in resultsDir.files :
            FollowsConvention(Files[f].name) =>
                LET r == parse_filename(Files[f].name)
                    e == Encoded(Files[f].name)
                IN  /\ ~r.raised
                    /\ DOMAIN r.map = {"dataset_size", "threads_or_buffer", "table_size"}
                    /\ r.map["dataset_size"] = e.dataset_size
                    /\ r.map["threads_or_buffer"] = e.threads_or_buffer
                    /\ r.map["table_size"] = e.table_size

\* C2: for a file that holds several ExecutionTime markers (likewise several
\* NumberOfHandledCollision markers), the reader returns the exact sum of
\* all the values of each marker.
C2_ReaderSumsEveryMarker ==
    (pc \in {"list", "parse"}) =>
        \A f \in resultsDir.files :
            LET times == EmbeddedValues(Files[f].text, ExecutionTimeLead, SpaceMs)
                colls == EmbeddedValues(Files[f].text, CollisionLead, <<>>)
            IN  (Files[f].readable /\ ~ReadFails(Files[f])) =>
                    /\ Len(times) >= 2 =>
                           /\ ReaderHas(script, f, "ExecutionTime_ms")
                           /\ ReaderValue(script, f, "ExecutionTime_ms") = SumSeq(times)
                    /\ Len(colls) >= 2 =>
                           /\ ReaderHas(script, f, "NumberOfHandledCollision")
                           /\ ReaderValue(script, f, "NumberOfHandledCollision") = SumSeq(colls)

\* C3: whatever the files of the results directory, a run ends normally and
\* never by an uncaught exception.
C3_RunNeverAborts ==
    pc = "done" => outcome \in {"returned", "not_found", "no_data"}

\* C4: for every candidate file whose name does not match the expected
\* pattern the parser yields an empty mapping and the cleaned dataset has
\* no record of the file; a file is kept only if both the parser and the
\* reader returned a non-empty mapping.
C4_MalformedNamesExcluded ==
    DatasetCleaned =>
        /\ \A f \in resultsDir.files :
               Malformed(script, Files[f].name) =>
                   /\ DOMAIN ParseOf(script, f).map = {}
                   /\ \A i \in DOMAIN df : df[i]["filename"] # Files[f].name
        /\ \A i \in DOMAIN df :
               \E f \in resultsDir.files :
                   /\ df[i]["filename"] = Files[f].name
                   /\ DOMAIN ParseOf(script, f).map # {}
                   /\ DOMAIN ReadOf(script, f).data # {}

\* C5: after the cleaning step every record of the dataset has a number for
\* each of dataset_size, threads_or_buffer, table_size, ExecutionTime_ms
\* and NumberOfHandledCollision, and the dataset has at most as many
\* records as were collected.
C5_CleanedRecordsAreNumeric ==
    DatasetCleaned =>
        /\ \A i \in DOMAIN df :
               \A col \in numeric_cols : col \in DOMAIN df[i] /\ df[i][col] \in Nat
        /\ Len(df) <= Len(all_data)

\* a cleaned, non-empty dataset from which the cleaning dropped a record
C5_Witness ==
    /\ DatasetCleaned
    /\ df # <<>>
    /\ Len(df) < Len(all_data)

C7_ReadFailureIsContained ==
    /\ ~(script = "plot" /\ outcome \in {"OSError", "IndexError", "ValueError"})
    /\ script \in AnalyzeScripts =>
           \A f \in resultsDir.files \ todo :
               (pc # "idle" /\ Candidate(script, Files[f].name) /\ ReadFails(Files[f])) =>
                   /\ ~Files[f].readable => <<"Error reading", f>> \in log
                   /\ \A i \in DOMAIN all_data : all_data[i]["filename"] # Files[f].name

\* C8: when the input directory does not exist the run is aborted with a
\* diagnostic message and draws no chart, and nothing else ends a run early
\* as an error.
C8_OnlyMissingInputDirAborts ==
    pc = "done" =>
        /\ ~resultsDir.exists =>
               /\ outcome = "not_found"
               /\ <<"Directory not found", 0>> \in log
               /\ charts = {}
        /\ outcome \notin {"returned", "no_data"} => ~resultsDir.exists

\* the file names the grouping keys of the run give
KeyNames ==
    IF script \in AnalyzeScripts
    THEN {<<"collisions_dataset_", df[i]["dataset_size"], ".png">> : i \in DOMAIN df}
         \cup {<<"exectime_grouped_dataset_", df[i]["dataset_size"], ".png">> : i \in DOMAIN df}
         \cup {<<"exectime_dataset_", df[i]["dataset_size"], "_tsize_", df[i]["table_size"],
                 ".png">> : i \in DOMAIN df}
    ELSE {<<"collision_group_", key[1], "K.png">> : key \in DOMAIN data}
         \cup {<<"exectime_", key[1], "K_", key[2], "K.png">> : key \in DOMAIN data}
         \cup {<<"collision_", key[1], "K_", key[2], "K.png">> : key \in DOMAIN data}

\* C9: a script run twice in succession on identical inputs leaves the same
\* set of file names in its output directory after the second run as after
\* the first, and every file name a run writes is made of the values of the
\* grouping keys (dataset size, table size) only.
C9_RerunGivesSameFilenames ==
    /\ (pc = "done" /\ sameAsPrev) => OutputDir = dirBefore
    /\ pc # "idle" => (OutputDir \ dirBefore) \subseteq KeyNames

\* the second of two runs of a script on the same inputs has ended, having
\* generated images
C9_Witness ==
    /\ pc = "done"
    /\ sameAsPrev
    /\ charts # {}

\* C10: with exactly the two files ..._150K_8_150K_....txt (300 ms, 12
\* collisions) and ..._150K_16_150K_....txt (150 ms, 5 collisions), the
\* execution time chart of dataset 150K has exactly the two bars of thread
\* counts 8 and 16, of heights 300 and 150, and its collision chart shows 12
\* and 5.
C10_EndToEndCharts ==
    (/\ pc = "done"
     /\ script \in {"new", "plot"}
     /\ resultsDir.files = {FileNamed(NameDoc), FileNamed(Name16)}) =>
        /\ \E c \in charts :
               /\ c.name \in {<<"exectime_grouped_dataset_", 150000, ".png">>,
                              <<"exectime_", 150, "K_", 150, "K.png">>}
               /\ BarsAre(c, <<8, 16>>, <<300, 150>>)
        /\ \E c \in charts :
               /\ c.name \in {<<"collisions_dataset_", 150000, ".png">>,
                              <<"collision_", 150, "K_", 150, "K.png">>}
               /\ BarsAre(c, <<8, 16>>, <<12, 5>>)

\* the collision chart loop of main is over
CollisionStepOver ==
    /\ script \in AnalyzeScripts
    /\ \/ pc \in {"exectime", "grouped"}
       \/ pc = "done" /\ outcome = "returned"

\* the sum of NumberOfHandledCollision over the records of df of a set of
\* indices
RECURSIVE CollisionsOver(_)
CollisionsOver(I) ==
    IF I = {}
    THEN 0
    ELSE LET i == CHOOSE x \in I : TRUE
         IN  df[i]["NumberOfHandledCollision"] + CollisionsOver(I \ {i})

\* C11: for every dataset size of the cleaned dataset the collision chart
\* step writes exactly one image, collisions_dataset_<size>.png, which has
\* one bar for every (thread count, table size) of that dataset, each bar
\* annotated by the integer part of its height: the mean of the cell, or 0
\* for a combination that has no record.
C11_OneCollisionImagePerDataset ==
    CollisionStepOver =>
        /\ \A c \in charts :
               c.name[1] = "collisions_dataset_" =>
                   \E i \in DOMAIN df : c.name[2] = df[i]["dataset_size"]
        /\ \A ds \in {df[i]["dataset_size"] : i \in DOMAIN df} :
               LET rows == {i \in DOMAIN df : df[i]["dataset_size"] = ds}
                   threads == {df[i]["threads_or_buffer"] : i \in rows}
                   tsizes == {df[i]["table_size"] : i \in rows}
                   drawn == {c \in charts : c.name = <<"collisions_dataset_", ds, ".png">>}
               IN  /\ Cardinality(drawn) = 1
                   /\ <<"collisions_dataset_", ds, ".png">> \in OutputDir
                   /\ \A c \in drawn :
                          /\ Len(c.bars) = Cardinality(threads) * Cardinality(tsizes)
                          /\ \A th \in threads, ts \in tsizes :
                                 \E k \in DOMAIN c.bars :
                                     c.bars[k].threads = th /\ c.bars[k].table_size = ts
                          /\ \A k \in DOMAIN c.bars :
                                 LET b == c.bars[k]
                                     cell == {i \in rows :
                                                 /\ df[i]["threads_or_buffer"] = b.threads
                                                 /\ df[i]["table_size"] = b.table_size}
                                 IN  /\ b.label \in Nat
                                     /\ b.label * b.height.den <= b.height.num
                                     /\ b.height.num < (b.label + 1) * b.height.den
                                     /\ IF cell = {}
                                        THEN b.nodata /\ b.label = 0
                                        ELSE /\ ~b.nodata
                                             /\ b.height.num * Cardinality(cell)
                                                    = b.height.den * CollisionsOver(cell)

\* the collision chart step has drawn a dataset whose combinations are
\* incomplete: a bar of a thread count that has no record for a table size
C11_Witness ==
    /\ CollisionStepOver
    /\ \E c \in charts :
           /\ c.name[1] = "collisions_dataset_"
           /\ \E k \in DOMAIN c.bars : c.bars[k].nodata

\* data of plot.py after its parse loop has taken the files F in ascending
\* order, none of them raising
RECURSIVE DataInOrder(_, _)
DataInOrder(d, F) ==
    IF F = {}
    THEN d
    ELSE LET f == CHOOSE x \in F : \A y \in F : x <= y
             m == PlotMatch[f]
         IN  DataInOrder(IF m = <<>>
                         THEN d
                         ELSE SetCell(d, <<PyInt(m[1]).value, PyInt(m[3]).value>>,
                                      PyInt(m[2]).value,
                                      [time |-> PlotTotals[f].time,
                                       coll |-> PlotTotals[f].coll]),
                         F \ {f})

\* all_data of main after its listing loop has taken the files F in
\* ascending order
RECURSIVE AllDataInOrder(_, _)
AllDataInOrder(acc, F) ==
    IF F = {}
    THEN acc
    ELSE LET f == CHOOSE x \in F : \A y \in F : x <= y
             kept == /\ Candidate(script, Files[f].name)
                     /\ Retained(script, ParseOf(script, f).map, ReadOf(script, f).data)
         IN  AllDataInOrder(IF kept
                            THEN Append(acc, Combined(ParseOf(script, f).map,
                                                      ReadOf(script, f).data, Files[f].name))
                            ELSE acc,
                            F \ {f})

\* C12: the values a run charts do not depend on the order in which the
\* results directory lists its files: the value of every (dataset size,
\* table size, thread count) cell is the one the ascending order of the same
\* files gives, also when several files encode the same cell.
C12_ListingOrderIndependent ==
    /\ (script = "plot" /\ pc = "individual") =>
           data = DataInOrder(EmptyDict,
                              {f \in resultsDir.files : EndsWith(Files[f].name, DotTxt)})
    /\ DatasetCleaned =>
           LET ref == Clean(AllDataInOrder(<<>>, resultsDir.files))
           IN  \A i \in DOMAIN df :
                   \A col \in {"NumberOfHandledCollision", "ExecutionTime_ms"} :
                       PivotCell(OfDataset(df, df[i]["dataset_size"]), col,
                                 df[i]["threads_or_buffer"], df[i]["table_size"])
                         = PivotCell(OfDataset(ref, df[i]["dataset_size"]), col,
                                     df[i]["threads_or_buffer"], df[i]["table_size"])

\* the files of the results directory plot.py has parsed, with the dataset
\* size, the table size and the thread count of each
PlotParsed ==
    {[ds |-> PyInt(PlotMatch[f][1]).value,
      ts |-> PyInt(PlotMatch[f][3]).value,
      th |-> PyInt(PlotMatch[f][2]).value,
      coll |-> PlotTotals[f].coll] :
        f \in {g \in resultsDir.files : PlotMatch[g] # <<>>}}

\* the grouped pass of plot.py has drawn the chart of a dataset size
GroupPassDone(ds) ==
    /\ script = "plot"
    /\ \/ pc = "group" /\ ds \notin Range(queue)
       \/ pc = "done" /\ outcome = "returned"

\* C13: in plot.py the grouped collision matrix of a dataset never fails on
\* a thread count that one of its table sizes lacks: the lookup inserts a
\* zero entry into data, the cell is charted as 0, and after the grouped
\* pass every table size of the dataset has an entry for every thread count
\* seen for the dataset.
C13_GroupedMatrixIsRectangular ==
    /\ (script = "plot" /\ pc = "group") => outcome = "none"
    /\ \A r \in PlotParsed :
           GroupPassDone(r.ds) =>
               LET seen == {x.th : x \in {y \in PlotParsed : y.ds = r.ds}}
                   sizes == {x.ts : x \in {y \in PlotParsed : y.ds = r.ds}}
               IN  /\ \A ts \in sizes : DOMAIN data[<<r.ds, ts>>] = seen
                   /\ \E c \in charts :
                          /\ c.name = <<"collision_group_", r.ds, "K.png">>
                          /\ Len(c.bars) = Cardinality(sizes) * Cardinality(seen)
                          /\ \A ts \in sizes, th \in seen :
                                 \E k \in DOMAIN c.bars :
                                     LET b == c.bars[k]
                                         of == {x \in PlotParsed :
                                                   x.ds = r.ds /\ x.ts = ts /\ x.th = th}
                                     IN  /\ b.table_size = ts
                                         /\ b.threads = th
                                         /\ IF of = {}
                                            THEN /\ b.height.num = 0
                                                 /\ b.label = 0
                                                 /\ data[<<r.ds, ts>>][th]
                                                        = [time |-> 0, coll |-> 0]
                                            ELSE \E x \in of :
                                                     b.height.num = x.coll * b.height.den

\* plot.py has ended, having drawn a grouped chart with a cell of a thread
\* count that the table size of the cell had no file for
C13_Witness ==
    /\ script = "plot"
    /\ pc = "done"
    /\ outcome = "returned"
    /\ \E c \in charts :
           /\ c.name[1] = "collision_group_"
           /\ \E k \in DOMAIN c.bars : c.bars[k].nodata

=============================================================================
